---- MODULE Spec2Model ----
(***************************************************************************)
(* Model of the lesson-plan pipeline of AiLessonPlanner: the FastAPI       *)
(* endpoint of app.py and the Streamlit script of main.py.  A run is one   *)
(* request to the endpoint (mode "api") or one execution of the script     *)
(* with an uploaded file (mode "ui").  Text is a tuple of one-character    *)
(* strings, so that split, strip and endswith are computed as Python       *)
(* computes them.                                                          *)
(***************************************************************************)
EXTENDS Integers, Sequences, FiniteSets, TLC

VARIABLES mode, envOf, env, pc, extracted_text, lesson_plan, button,
          sections, idx, story, pdf, status, stErrors, textArea, log

vars == <<mode, envOf, env, pc, extracted_text, lesson_plan, button,
          sections, idx, story, pdf, status, stErrors, textArea, log>>

----------------------------------------------------------------------------
(* Bounds of the explored inputs.                                          *)

MaxLen == 4

MaxPages == 2

Alphabet == {"a", ":", "\n", " "}

PageTexts == {<< >>, <<"a">>}

ImageData == {"png1", "png2"}

----------------------------------------------------------------------------
(* Python string operations on tuples of characters.                       *)

Whitespace == {" ", "\n", "\t", "\r", "\f"}

Contains(s, c) == \E i \in 1..Len(s) : s[i] = c

Find(s, sep) ==
  LET hits == {i \in 1..(Len(s) - Len(sep) + 1) :
                 SubSeq(s, i, i + Len(sep) - 1) = sep}
  IN IF hits = {} THEN 0 ELSE CHOOSE i \in hits : \A j \in hits : i <= j

RECURSIVE Split(_, _)
Split(s, sep) ==
  LET i == Find(s, sep)
  IN IF i = 0 THEN <<s>>
     ELSE <<SubSeq(s, 1, i - 1)>> \o Split(SubSeq(s, i + Len(sep), Len(s)), sep)

SplitFirst(s, sep) ==
  LET i == Find(s, sep)
  IN <<SubSeq(s, 1, i - 1), SubSeq(s, i + Len(sep), Len(s))>>

Strip(s) ==
  LET keep == {i \in 1..Len(s) : s[i] \notin Whitespace}
  IN IF keep = {} THEN << >>
     ELSE LET lo == CHOOSE i \in keep : \A j \in keep : i <= j
              hi == CHOOSE i \in keep : \A j \in keep : j <= i
          IN SubSeq(s, lo, hi)

EndsWithAnywhere(s, suffix) == Find(s, suffix) # 0

EndsWith(s, suffix) ==
  /\ Len(s) >= Len(suffix)
  /\ SubSeq(s, Len(s) - Len(suffix) + 1, Len(s)) = suffix

RECURSIVE Join(_)
Join(pages) == IF pages = << >> THEN << >> ELSE Head(pages) \o Join(Tail(pages))

DotPdf == <<".", "p", "d", "f">>

Colon == <<":">>

Newline == <<"\n">>

BlankLine == <<"\n", "\n">>

----------------------------------------------------------------------------
(* Flowables of the story list (reportlab.platypus objects).               *)

Flowable(type, text, style, items, data, w, h) ==
  [type |-> type, text |-> text, style |-> style, items |-> items,
   data |-> data, w |-> w, h |-> h]

Paragraph(text, style) == Flowable("Paragraph", text, style, << >>, "", 0, 0)

Spacer(w, h) == Flowable("Spacer", << >>, "", << >>, "", w, h)

ListFlowable(items) == Flowable("ListFlowable", << >>, "Bullet", items, "", 0, 0)

ReportLabImage(data, w, h) == Flowable("Image", << >>, "", << >>, data, w, h)

TitleText == <<"L", "e", "s", "s", "o", "n", " ", "P", "l", "a", "n">>

StoryHead == <<Paragraph(TitleText, "Title"), Spacer(1, 24)>>

(* sections = lesson_plan.split("\n\n") *)
BlocksSingleNewline(plan) == Split(plan, Newline)

Blocks(plan) == Split(plan, BlankLine)

(* if ':' in section *)
HasColon(section) == Contains(section, ":")

(* heading, content = section.split(":", 1) *)
HeadingOf(section) == Strip(SplitFirst(section, Colon)[1])

ContentOf(section) == Strip(SplitFirst(section, Colon)[2])

(* Paragraph(heading.strip() + ":", ...) / Paragraph(f"<b>{heading.strip()}:</b>", ...) *)
HeadingText(m, heading) ==
  IF m = "api" THEN heading \o Colon
  ELSE <<"<", "b", ">">> \o heading \o Colon \o <<"<", "/", "b", ">">>

(* the body flowable: app.py always one paragraph, main.py bullets on "\n" *)
BodyFlowable(m, content) ==
  IF m = "ui" /\ Contains(content, "\n")
  THEN LET bullet_points == Split(content, Newline)
       IN ListFlowable([i \in 1..Len(bullet_points) |-> Strip(bullet_points[i])])
  ELSE Paragraph(content, "BodyText")

(* ReportLabImage(image_buffer, width=4 * inch / 8 * inch, height=3 * inch) *)
ImageFlowable(m, data) == ReportLabImage(data, IF m = "api" THEN 4 ELSE 8, 3)

----------------------------------------------------------------------------
(* Inputs: uploads, and the responses of the two remote endpoints.         *)

ExamplePlan ==
  <<"I", "n", "t", "r", "o", ":", " ", "H", "e", "l", "l", "o", "\n", "\n",
    "B", "o", "d", "y", ":", " ", "W", "o", "r", "l", "d", "\n",
    "W", "i", "d", "e">>

MixedPlan ==
  <<"a", ":", "b", ":", "c", "\n", "\n", "n", "o", "\n", "\n",
    " ", "d", " ", ":", " ", "e", "\n", " ", "f", " ">>

ThreePlan ==
  <<"x", ":", "1", "\n", "\n", "y", ":", "2", "\n", "3", "\n", "\n", "z", ":", "4">>

NamedPlans == {ExamplePlan, MixedPlan, ThreePlan}

Texts == UNION {[1..k -> Alphabet] : k \in 0..MaxLen}

Contents == Texts \cup NamedPlans

SmallContents == NamedPlans \cup {<<"a">>, <<":", "a", "\n", "a">>}

Filenames ==
  { <<"n", "o", "t", "e", "s", ".", "t", "x", "t">>,
    <<"a", ".", "p", "d", "f">>,
    DotPdf,
    <<"a", ".", "p", "d", "f", ".", "t", "x", "t">>,
    <<"a", "p", "d", "f">>,
    <<"a", ".", "P", "D", "F">> }

PdfDocs ==
  {[valid |-> FALSE, pages |-> << >>]} \cup
  {[valid |-> TRUE, pages |-> p] :
     p \in UNION {[1..k -> PageTexts] : k \in 0..MaxPages}}

SmallDocs ==
  {[valid |-> FALSE, pages |-> << >>],
   [valid |-> TRUE, pages |-> << >>],
   [valid |-> TRUE, pages |-> <<<<"a">>>>]}

Unset == [status |-> "unset", content |-> << >>]

ChatResponses(C) ==
  {[status |-> "ok", content |-> c] : c \in C} \cup
  {[status |-> "http_error", content |-> << >>],
   [status |-> "bad_payload", content |-> << >>]}

ImageResponses ==
  {[status |-> "ok", data |-> d] : d \in ImageData} \cup
  {[status |-> "http_error", data |-> ""],
   [status |-> "bad_payload", data |-> ""]}

Environments(F, D) ==
  {[filename |-> f, doc |-> d, chat |-> Unset, img |-> << >>] :
     f \in F, d \in D}

----------------------------------------------------------------------------
(* Runs and their local state.                                             *)

Runs == DOMAIN mode

Env(r) == env[envOf[r]]

(* story = [] : a list local to each call of create_pdf *)
StoryCellShared(r) == 1

StoryCell(r) == r

Entry(ev, name, arg, st) == [ev |-> ev, name |-> name, arg |-> arg, status |-> st]

Requests(l, name) ==
  SelectSeq(l, LAMBDA e : e.ev = "request" /\ e.name = name)

Calls(l) == SelectSeq(l, LAMBDA e : e.ev = "call")

(* st.file_uploader(..., type=["pdf"]) only hands over files named *.pdf *)
InitRuns(modes, envs, F, D) ==
  /\ mode = modes
  /\ envOf = envs
  /\ env \in [{envs[r] : r \in DOMAIN modes} -> Environments(F, D)]
  /\ \A r \in DOMAIN modes :
       modes[r] = "ui" => EndsWith(env[envs[r]].filename, DotPdf)
  /\ pc = [r \in DOMAIN modes |-> "start"]
  /\ extracted_text = [r \in DOMAIN modes |-> << >>]
  /\ lesson_plan = [r \in DOMAIN modes |-> << >>]
  /\ button = [r \in DOMAIN modes |-> FALSE]
  /\ sections = [r \in DOMAIN modes |-> << >>]
  /\ idx = [r \in DOMAIN modes |-> 0]
  /\ story = [r \in DOMAIN modes |-> << >>]
  /\ pdf = [r \in DOMAIN modes |-> << >>]
  /\ status = [r \in DOMAIN modes |-> 0]
  /\ stErrors = [r \in DOMAIN modes |-> << >>]
  /\ textArea = [r \in DOMAIN modes |-> << >>]
  /\ log = [r \in DOMAIN modes |-> << >>]

Init ==
  \E m \in {"api", "ui"} :
    InitRuns(<<m>>, <<1>>, Filenames, PdfDocs)

InitBoth == InitRuns(<<"api", "ui">>, <<1, 1>>, Filenames, SmallDocs)

InitConc ==
  \E m \in [1..2 -> {"api", "ui"}] :
    InitRuns(m, <<1, 2>>, {<<"a", ".", "p", "d", "f">>}, SmallDocs)

----------------------------------------------------------------------------
(* An exception that leaves the pipeline: FastAPI answers 500, the         *)
(* Streamlit script catches it and shows st.error.                         *)

Raise(r, code) ==
  /\ pc' = [pc EXCEPT ![r] = "error"]
  /\ IF mode[r] = "api"
     THEN /\ status' = [status EXCEPT ![r] = code]
          /\ UNCHANGED stErrors
     ELSE /\ stErrors' = [stErrors EXCEPT ![r] = Append(@, "An error occurred")]
          /\ UNCHANGED status

(* upload_and_generate_plan up to file.read() / the script up to uploaded_file.read() *)
Upload(r) ==
  /\ pc[r] = "start"
  /\ IF mode[r] = "api" /\ ~EndsWith(Env(r).filename, DotPdf)
     THEN /\ pc' = [pc EXCEPT ![r] = "error"]
          /\ status' = [status EXCEPT ![r] = 400]
     ELSE /\ pc' = [pc EXCEPT ![r] = "extract"]
          /\ UNCHANGED status
  /\ UNCHANGED <<mode, envOf, env, extracted_text, lesson_plan, button,
                 sections, idx, story, pdf, stErrors, textArea, log>>

(* whether the entry point goes on to generate_lesson_plan *)
ProceedsAlways(m, text) == TRUE

Proceeds(m, text) == m = "api" \/ text # << >>

(* extract_text_from_pdf and the caller's reaction to its result *)
ExtractText(r) ==
  /\ pc[r] = "extract"
  /\ log' = [log EXCEPT ![r] =
               Append(@, Entry("call", "extract_text_from_pdf", << >>, ""))]
  /\ IF Env(r).doc.valid
     THEN /\ extracted_text' = [extracted_text EXCEPT ![r] = Join(Env(r).doc.pages)]
          /\ pc' = [pc EXCEPT ![r] =
                      IF Proceeds(mode[r], Join(Env(r).doc.pages))
                      THEN "generate" ELSE "done"]
          /\ UNCHANGED <<status, stErrors>>
     ELSE IF mode[r] = "api"
          THEN /\ pc' = [pc EXCEPT ![r] = "error"]
               /\ status' = [status EXCEPT ![r] = 500]
               /\ UNCHANGED <<extracted_text, stErrors>>
          ELSE /\ stErrors' = [stErrors EXCEPT ![r] =
                                 Append(@, "PDF extraction failed")]
               /\ extracted_text' = [extracted_text EXCEPT ![r] = << >>]
               /\ pc' = [pc EXCEPT ![r] =
                           IF Proceeds(mode[r], << >>) THEN "generate" ELSE "done"]
               /\ UNCHANGED status
  /\ UNCHANGED <<mode, envOf, env, lesson_plan, button, sections, idx, story,
                 pdf, textArea>>

(* generate_lesson_plan up to requests.post *)
ChatRequest(r) ==
  /\ pc[r] = "generate"
  /\ log' = [log EXCEPT ![r] =
               @ \o <<Entry("call", "generate_lesson_plan", extracted_text[r], ""),
                      Entry("request", "chat", extracted_text[r], "")>>]
  /\ pc' = [pc EXCEPT ![r] = "chat_wait"]
  /\ UNCHANGED <<mode, envOf, env, extracted_text, lesson_plan, button,
                 sections, idx, story, pdf, status, stErrors, textArea>>

(* response.raise_for_status() and response.json()[...] of                 *)
(* generate_lesson_plan on a response that is not a well-formed success    *)
ChatFailedRetry(r) ==
  IF Len(Requests(log[r], "chat")) < 2
  THEN /\ pc' = [pc EXCEPT ![r] = "generate"]
       /\ UNCHANGED <<status, stErrors>>
  ELSE Raise(r, 500)

ChatFailed(r) == Raise(r, 500)

(* the response of the chat endpoint, the rest of generate_lesson_plan,    *)
(* and the caller up to create_pdf (in the script: st.text_area, st.button) *)
ChatResponse(r, C) ==
  /\ pc[r] = "chat_wait"
  /\ \E resp \in (IF Env(r).chat = Unset THEN ChatResponses(C) ELSE {Env(r).chat}) :
       /\ env' = [env EXCEPT ![envOf[r]].chat = resp]
       /\ log' = [log EXCEPT ![r] =
                    Append(@, Entry("response", "chat", << >>, resp.status))]
       /\ IF resp.status = "ok"
          THEN /\ lesson_plan' = [lesson_plan EXCEPT ![r] = Strip(resp.content)]
               /\ UNCHANGED <<status, stErrors>>
               /\ IF mode[r] = "api"
                  THEN /\ pc' = [pc EXCEPT ![r] = "create_pdf"]
                       /\ UNCHANGED <<textArea, button>>
                  ELSE /\ textArea' = [textArea EXCEPT ![r] = Strip(resp.content)]
                       /\ \E b \in BOOLEAN :
                            /\ button' = [button EXCEPT ![r] = b]
                            /\ pc' = [pc EXCEPT ![r] =
                                        IF b THEN "create_pdf" ELSE "done"]
          ELSE /\ ChatFailed(r)
               /\ UNCHANGED <<lesson_plan, textArea, button>>
  /\ UNCHANGED <<mode, envOf, extracted_text, sections, idx, story, pdf>>

(* create_pdf up to the loop over the sections *)
CreatePdf(r) ==
  /\ pc[r] = "create_pdf"
  /\ log' = [log EXCEPT ![r] =
               Append(@, Entry("call", "create_pdf", lesson_plan[r], ""))]
  /\ story' = [story EXCEPT ![StoryCell(r)] = StoryHead]
  /\ sections' = [sections EXCEPT ![r] = Blocks(lesson_plan[r])]
  /\ idx' = [idx EXCEPT ![r] = 1]
  /\ pc' = [pc EXCEPT ![r] = "loop"]
  /\ UNCHANGED <<mode, envOf, env, extracted_text, lesson_plan, button, pdf,
                 status, stErrors, textArea>>

(* a loop iteration on a block without a colon *)
SkipBlock(r) ==
  /\ pc[r] = "loop"
  /\ idx[r] <= Len(sections[r])
  /\ ~HasColon(sections[r][idx[r]])
  /\ idx' = [idx EXCEPT ![r] = @ + 1]
  /\ UNCHANGED <<mode, envOf, env, pc, extracted_text, lesson_plan, button,
                 sections, story, pdf, status, stErrors, textArea, log>>

(* a loop iteration on a block with a colon, up to the image request *)
FireAndForget(r) ==
  /\ idx' = [idx EXCEPT ![r] = @ + 1]
  /\ UNCHANGED pc

(* image_buffer = generate_image_from_text(...): the loop blocks on the call *)
AwaitImage(r) ==
  /\ pc' = [pc EXCEPT ![r] = "img_wait"]
  /\ UNCHANGED idx

EmitSection(r) ==
  /\ pc[r] = "loop"
  /\ idx[r] <= Len(sections[r])
  /\ HasColon(sections[r][idx[r]])
  /\ LET section == sections[r][idx[r]]
     IN /\ story' = [story EXCEPT ![StoryCell(r)] =
                       @ \o <<Paragraph(HeadingText(mode[r], HeadingOf(section)), "Heading2"),
                              Spacer(1, 12),
                              BodyFlowable(mode[r], ContentOf(section)),
                              Spacer(1, 12)>>]
        /\ log' = [log EXCEPT ![r] =
                     @ \o <<Entry("call", "generate_image_from_text", ContentOf(section), ""),
                            Entry("request", "image", ContentOf(section), "")>>]
  /\ AwaitImage(r)
  /\ UNCHANGED <<mode, envOf, env, extracted_text, lesson_plan, button,
                 sections, pdf, status, stErrors, textArea>>

(* the response of the image endpoint, the rest of generate_image_from_text *)
(* and the rest of the loop iteration                                       *)
ImageFailedSkip(r) ==
  /\ idx' = [idx EXCEPT ![r] = @ + 1]
  /\ pc' = [pc EXCEPT ![r] = "loop"]
  /\ UNCHANGED <<status, stErrors>>

(* an exception of generate_image_from_text leaves create_pdf *)
ImageFailed(r) ==
  /\ Raise(r, 500)
  /\ UNCHANGED idx

ImageResponse(r) ==
  /\ pc[r] = "img_wait"
  /\ LET k == Len(Requests(log[r], "image"))
     IN \E resp \in (IF k <= Len(Env(r).img) THEN {Env(r).img[k]} ELSE ImageResponses) :
          /\ env' = [env EXCEPT ![envOf[r]].img =
                       IF k <= Len(@) THEN @ ELSE Append(@, resp)]
          /\ log' = [log EXCEPT ![r] =
                       Append(@, Entry("response", "image", << >>, resp.status))]
          /\ IF resp.status = "ok"
             THEN /\ story' = [story EXCEPT ![StoryCell(r)] =
                                 @ \o <<ImageFlowable(mode[r], resp.data), Spacer(1, 24)>>]
                  /\ idx' = [idx EXCEPT ![r] = @ + 1]
                  /\ pc' = [pc EXCEPT ![r] = "loop"]
                  /\ UNCHANGED <<status, stErrors>>
             ELSE /\ ImageFailed(r)
                  /\ UNCHANGED story
  /\ UNCHANGED <<mode, envOf, extracted_text, lesson_plan, button, sections,
                 pdf, textArea>>

(* the end of the loop: doc.build(story), and the PDF handed to the caller *)
BuildPdf(r) ==
  /\ pc[r] = "loop"
  /\ idx[r] > Len(sections[r])
  /\ pdf' = [pdf EXCEPT ![r] = story[StoryCell(r)]]
  /\ status' = [status EXCEPT ![r] = IF mode[r] = "api" THEN 200 ELSE @]
  /\ pc' = [pc EXCEPT ![r] = "done"]
  /\ UNCHANGED <<mode, envOf, env, extracted_text, lesson_plan, button,
                 sections, idx, story, stErrors, textArea, log>>

Next ==
  \/ \E r \in Runs : Upload(r)
  \/ \E r \in Runs : ExtractText(r)
  \/ \E r \in Runs : ChatRequest(r)
  \/ \E r \in Runs : ChatResponse(r, Contents)
  \/ \E r \in Runs : CreatePdf(r)
  \/ \E r \in Runs : SkipBlock(r)
  \/ \E r \in Runs : EmitSection(r)
  \/ \E r \in Runs : ImageResponse(r)
  \/ \E r \in Runs : BuildPdf(r)

NextSmall ==
  \/ \E r \in Runs : Upload(r)
  \/ \E r \in Runs : ExtractText(r)
  \/ \E r \in Runs : ChatRequest(r)
  \/ \E r \in Runs : ChatResponse(r, SmallContents)
  \/ \E r \in Runs : CreatePdf(r)
  \/ \E r \in Runs : SkipBlock(r)
  \/ \E r \in Runs : EmitSection(r)
  \/ \E r \in Runs : ImageResponse(r)
  \/ \E r \in Runs : BuildPdf(r)

Spec == Init /\ [][Next]_vars

SpecBoth == InitBoth /\ [][NextSmall]_vars

SpecConc == InitConc /\ [][NextSmall]_vars

----------------------------------------------------------------------------
(* What the claims speak about: the colon-bearing blocks of a plan, the    *)
(* prompts they call for and the position of a section's flowables.        *)

ColonBlocks(plan) ==
  SelectSeq(Split(plan, BlankLine), LAMBDA b : \E i \in 1..Len(b) : b[i] = ":")

FirstColon(b) == CHOOSE i \in 1..Len(b) : b[i] = ":" /\ \A j \in 1..(i - 1) : b[j] # ":"

Before(b) == Strip(SubSeq(b, 1, FirstColon(b) - 1))

After(b) == Strip(SubSeq(b, FirstColon(b) + 1, Len(b)))

Prompts(l) == [k \in 1..Len(Requests(l, "image")) |-> Requests(l, "image")[k].arg]

Remote(l) == SelectSeq(l, LAMBDA e : e.ev \in {"request", "response"})

Failures(l, name) ==
  SelectSeq(l, LAMBDA e : e.ev = "response" /\ e.name = name /\ e.status # "ok")

IsPrefix(s, t) == Len(s) <= Len(t) /\ \A k \in 1..Len(s) : s[k] = t[k]

HeadingAt(k) == 2 + 6 * (k - 1) + 1

BodyAt(k) == 2 + 6 * (k - 1) + 3

ImageAt(k) == 2 + 6 * (k - 1) + 5

Count(st, type) == Len(SelectSeq(st, LAMBDA f : f.type = type))

Headings(st) == SelectSeq(st, LAMBDA f : f.type = "Paragraph" /\ f.style = "Heading2")

Delivered(r) == pc[r] = "done" /\ pdf[r] # << >>

Terminal(r) == pc[r] \in {"done", "error"}

HasPdfSuffix(f) ==
  /\ Len(f) >= 4
  /\ f[Len(f) - 3] = "." /\ f[Len(f) - 2] = "p"
  /\ f[Len(f) - 1] = "d" /\ f[Len(f)] = "f"

RECURSIVE Flatten(_)
Flatten(ss) == IF ss = << >> THEN << >> ELSE Head(ss) \o Flatten(Tail(ss))

(* C1: a delivered PDF holds, after the title, exactly one heading and one
   illustration per colon-bearing block of the plan, in the order of the
   blocks, and nothing for a block without a colon; image requests are
   issued for colon-bearing blocks only, in their order. *)
Thm_C1 ==
  \A r \in Runs :
    LET cb == ColonBlocks(lesson_plan[r])
    IN /\ IsPrefix(Prompts(log[r]), [k \in 1..Len(cb) |-> After(cb[k])])
       /\ Delivered(r) =>
            /\ SubSeq(pdf[r], 1, 2) = StoryHead
            /\ Len(pdf[r]) = 2 + 6 * Len(cb)
            /\ Count(pdf[r], "Image") = Len(cb)
            /\ Len(Headings(pdf[r])) = Len(cb)
            /\ Len(Prompts(log[r])) = Len(cb)
            /\ \A k \in 1..Len(cb) :
                 /\ pdf[r][HeadingAt(k)] =
                      Paragraph(HeadingText(mode[r], Before(cb[k])), "Heading2")
                 /\ pdf[r][ImageAt(k)].type = "Image"

Wit_C1 ==
  \E r \in Runs :
    /\ Delivered(r)
    /\ Len(ColonBlocks(lesson_plan[r])) >= 2
    /\ Len(Split(lesson_plan[r], BlankLine)) > Len(ColonBlocks(lesson_plan[r]))

(* C2: in either entry point the body of every emitted section is a
   bulleted list with one item per line when the trimmed body has a
   newline, and exactly one paragraph otherwise. *)
Cex_C2 ==
  \A r \in Runs :
    Delivered(r) =>
      LET cb == ColonBlocks(lesson_plan[r])
      IN \A k \in 1..Len(cb) :
           LET body == pdf[r][BodyAt(k)]
           IN IF \E i \in 1..Len(After(cb[k])) : After(cb[k])[i] = "\n"
              THEN /\ body.type = "ListFlowable"
                   /\ Len(body.items) = Len(Split(After(cb[k]), Newline))
              ELSE body = Paragraph(After(cb[k]), "BodyText")

(* C3: an API upload whose filename does not end with ".pdf" is answered
   with status 400 and nothing else happens on that request; extraction is
   reached only for filenames ending with ".pdf". *)
Thm_C3 ==
  \A r \in Runs :
    mode[r] = "api" =>
      /\ (~HasPdfSuffix(Env(r).filename) /\ pc[r] # "start") =>
           /\ status[r] = 400
           /\ pc[r] = "error"
           /\ log[r] = << >>
           /\ story[r] = << >>
           /\ pdf[r] = << >>
           /\ Env(r).chat = Unset
           /\ Env(r).img = << >>
      /\ (pc[r] = "extract" \/ log[r] # << >>) => HasPdfSuffix(Env(r).filename)

Wit_C3 ==
  \E r \in Runs :
    /\ mode[r] = "api"
    /\ ~HasPdfSuffix(Env(r).filename)
    /\ status[r] = 400

(* C4: once an image request of a run has failed, at whatever position,
   the run has ended with the failure: no PDF, no further section
   processed, no further image requested. *)
Thm_C4 ==
  \A r \in Runs :
    Failures(log[r], "image") # << >> =>
      /\ pdf[r] = << >>
      /\ pc[r] = "error"
      /\ log[r][Len(log[r])].ev = "response"
      /\ log[r][Len(log[r])].status # "ok"
      /\ Len(Failures(log[r], "image")) = 1
      /\ idx[r] <= Len(sections[r])
      /\ sections[r][idx[r]] =
           ColonBlocks(lesson_plan[r])[Len(Prompts(log[r]))]
      /\ mode[r] = "api" => status[r] = 500
      /\ mode[r] = "ui" => stErrors[r] = <<"An error occurred">>

Wit_C4 ==
  \E r \in Runs :
    /\ Failures(log[r], "image") # << >>
    /\ Len(Prompts(log[r])) = 2
    /\ Len(ColonBlocks(lesson_plan[r])) = 3

(* C5: the heading of every emitted section is the trimmed text before the
   first colon of its block and the prompt of its image request is the
   trimmed text after that colon; the plan "Intro: Hello\n\nBody: World\nWide"
   yields heading "Intro" with the paragraph "Hello" and heading "Body" with
   the bullet list ["World", "Wide"], each followed by one image. *)
Cex_C5 ==
  \A r \in Runs :
    LET cb == ColonBlocks(lesson_plan[r])
    IN /\ IsPrefix(Prompts(log[r]), [k \in 1..Len(cb) |-> After(cb[k])])
       /\ Delivered(r) =>
            \A k \in 1..Len(cb) :
              pdf[r][HeadingAt(k)].text = HeadingText(mode[r], Before(cb[k]))
       /\ (Delivered(r) /\ lesson_plan[r] = ExamplePlan) =>
            /\ Len(pdf[r]) = 14
            /\ pdf[r][HeadingAt(1)].text =
                 HeadingText(mode[r], <<"I", "n", "t", "r", "o">>)
            /\ pdf[r][BodyAt(1)] = Paragraph(<<"H", "e", "l", "l", "o">>, "BodyText")
            /\ pdf[r][ImageAt(1)].type = "Image"
            /\ pdf[r][HeadingAt(2)].text =
                 HeadingText(mode[r], <<"B", "o", "d", "y">>)
            /\ pdf[r][BodyAt(2)] =
                 ListFlowable(<< <<"W", "o", "r", "l", "d">>, <<"W", "i", "d", "e">> >>)
            /\ pdf[r][ImageAt(2)].type = "Image"

(* C6: when extraction fails on an unparseable PDF no later stage runs: the
   API request ends with status 500, the script shows the extraction error
   and works on the empty string; neither calls generate_lesson_plan or
   create_pdf. *)
Thm_C6 ==
  \A r \in Runs :
    (~Env(r).doc.valid /\ log[r] # << >>) =>
      /\ Len(log[r]) = 1
      /\ log[r][1].name = "extract_text_from_pdf"
      /\ pdf[r] = << >>
      /\ story[r] = << >>
      /\ mode[r] = "api" => (status[r] = 500 /\ pc[r] = "error")
      /\ mode[r] = "ui" =>
           /\ extracted_text[r] = << >>
           /\ stErrors[r] = <<"PDF extraction failed">>
           /\ pc[r] = "done"

Wit_C6 ==
  /\ \A r \in Runs : ~Env(r).doc.valid /\ log[r] # << >>
  /\ \E r \in Runs : mode[r] = "api"
  /\ \E r \in Runs : mode[r] = "ui"

(* C7: on the same upload and the same remote responses the API entry point
   and the script invoke the same stages in the same order with the same
   arguments and assemble the same sequence of section elements. *)
Cex_C7 ==
  \A r1, r2 \in Runs :
    ( /\ envOf[r1] = envOf[r2]
      /\ Terminal(r1) /\ Terminal(r2)
      /\ \A r \in {r1, r2} :
           ~(mode[r] = "ui" /\ textArea[r] # << >> /\ ~button[r]) ) =>
      /\ Calls(log[r1]) = Calls(log[r2])
      /\ [k \in 1..Len(pdf[r1]) |-> pdf[r1][k].type] =
           [k \in 1..Len(pdf[r2]) |-> pdf[r2][k].type]

(* C8: a run sends at most one chat-completion request; when its response
   is not a success the run ends with the failure, without any image
   request and without a PDF. *)
Thm_C8 ==
  \A r \in Runs :
    /\ Len(Requests(log[r], "chat")) <= 1
    /\ Failures(log[r], "chat") # << >> =>
         /\ Requests(log[r], "image") = << >>
         /\ pdf[r] = << >>
         /\ story[r] = << >>
         /\ pc[r] = "error"
         /\ mode[r] = "api" => status[r] = 500
         /\ mode[r] = "ui" => stErrors[r] = <<"An error occurred">>

Wit_C8 ==
  \E r \in Runs :
    /\ Failures(log[r], "chat") # << >>
    /\ Terminal(r)

(* C9: the remote calls of a run never overlap: requests and responses
   alternate, the chat call comes first and is answered before any image
   request, image requests follow the order of the sections, and a
   delivered PDF of N colon-bearing blocks took exactly 1 + N requests. *)
Thm_C9 ==
  \A r \in Runs :
    LET rem == Remote(log[r])
        cb == ColonBlocks(lesson_plan[r])
    IN /\ \A i \in 1..Len(rem) :
            /\ rem[i].ev = IF i % 2 = 1 THEN "request" ELSE "response"
            /\ rem[i].name = IF i <= 2 THEN "chat" ELSE "image"
            /\ (i > 2 /\ i % 2 = 1) => rem[i - 1].status = "ok"
       /\ pc[r] \in {"chat_wait", "img_wait"} <=> Len(rem) % 2 = 1
       /\ IsPrefix(Prompts(log[r]), [k \in 1..Len(cb) |-> After(cb[k])])
       /\ Delivered(r) => Len(rem) = 2 * (1 + Len(cb))

Wit_C9 ==
  \E r \in Runs :
    /\ Delivered(r)
    /\ Len(ColonBlocks(lesson_plan[r])) >= 2
    /\ Len(Remote(log[r])) >= 6

(* C10: under any interleaving of two runs, the extracted text, lesson
   plan, prompts and PDF of a run are determined by its own upload and the
   responses to its own requests. *)
Thm_C10 ==
  \A r \in Runs :
    LET cb == ColonBlocks(Strip(Env(r).chat.content))
    IN /\ extracted_text[r] \in {<< >>, Flatten(Env(r).doc.pages)}
       /\ lesson_plan[r] \in {<< >>, Strip(Env(r).chat.content)}
       /\ IsPrefix(Prompts(log[r]), [k \in 1..Len(cb) |-> After(cb[k])])
       /\ Delivered(r) =>
            /\ Len(Env(r).img) = Len(cb)
            /\ pdf[r] = StoryHead \o Flatten(
                 [k \in 1..Len(cb) |->
                    <<Paragraph(HeadingText(mode[r], Before(cb[k])), "Heading2"),
                      Spacer(1, 12),
                      BodyFlowable(mode[r], After(cb[k])),
                      Spacer(1, 12),
                      ImageFlowable(mode[r], Env(r).img[k].data),
                      Spacer(1, 24)>>])

Wit_C10 ==
  /\ \A r \in Runs : mode[r] = "api" /\ Delivered(r)
  /\ \E r1, r2 \in Runs :
       /\ pdf[r1] # pdf[r2]
       /\ Env(r1).img # Env(r2).img
       /\ lesson_plan[r1] # lesson_plan[r2]

====
